---- MODULE Spec2Model ----
(***************************************************************************)
(* Active24 provider of lexicon (src/lexicon/providers/active24.py).       *)
(*                                                                         *)
(* Python dictionaries are functions over their keys, Python strings that  *)
(* the code only compares are TLA+ strings, and record names, which the    *)
(* code strips and joins, are sequences of one-character strings.          *)
(* Python's None is the string None for string-valued slots; an omitted    *)
(* name is the empty sequence and an unset integer option is 0: the code   *)
(* only ever tests these slots for truthiness.                             *)
(* An exception is a result [tag |-> <exception name>]; a normal return is *)
(* [tag |-> "ok", val |-> <value>].                                        *)
(***************************************************************************)
EXTENDS Integers, Sequences, FiniteSets, TLC

VARIABLES
    pc,       \* where the provider instance is: new, ready, unowned, done
    domain_id, \* self.domain_id
    zone,     \* the registrar's records of the domain, in response order
    zone0,    \* the registrar's records when the last call began
    call,     \* the last call: operation, arguments and lexicon options
    found,    \* what the call's _list_records returned (or raised)
    reqs,     \* the HTTP requests the last call issued, in order
    result,   \* what the last call returned, or the exception it raised
    tIn,      \* translator check: the lexicon record handed in
    tOut      \* translator check: the result of translating there and back

vars == <<pc, domain_id, zone, zone0, call, found, reqs, result, tIn, tOut>>

-----------------------------------------------------------------------------
(* Bounds *)

\* The registrar refuses a creation once the zone holds this many records.
MaxZone == 2

-----------------------------------------------------------------------------
(* Python values *)

None == "None"

Ok(v) == [tag |-> "ok", val |-> v]

Raise(e) == [tag |-> e]

\* bool(x) of a str-or-None slot
Truthy(x) == x /= None /\ x /= ""

\* dict.pop(key) / del: the dictionary without these keys
Without(d, keys) == [k \in DOMAIN d \ keys |-> d[k]]

\* d.update(e), as a value: e's entries win
DictUpdate(d, e) == e @@ d

EmptyDict == << >>

\* bool(d) of a dictionary is False exactly when it has no keys
IsEmpty(d) == DOMAIN d = {}

\* str.upper() and str.lower() over the record type strings of the model
LowerOf ==
    [A |-> "a", AAAA |-> "aaaa", CAA |-> "caa", CNAME |-> "cname", MX |-> "mx",
     NS |-> "ns", SRV |-> "srv", SSHFP |-> "sshfp", TLSA |-> "tlsa",
     TXT |-> "txt", SOA |-> "soa"]

UpperOf ==
    [a |-> "A", aaaa |-> "AAAA", caa |-> "CAA", cname |-> "CNAME", mx |-> "MX",
     ns |-> "NS", srv |-> "SRV", sshfp |-> "SSHFP", tlsa |-> "TLSA",
     txt |-> "TXT", soa |-> "SOA"]

Upper(s) == IF s \in DOMAIN UpperOf THEN UpperOf[s] ELSE s

Lower(s) == IF s \in DOMAIN LowerOf THEN LowerOf[s] ELSE s

\* str.rstrip(".")
RECURSIVE RStripDot(_)
RStripDot(s) ==
    IF s /= << >> /\ s[Len(s)] = "."
    THEN RStripDot(SubSeq(s, 1, Len(s) - 1))
    ELSE s

\* str.endswith(suffix)
EndsWith(s, suffix) ==
    /\ Len(suffix) <= Len(s)
    /\ SubSeq(s, Len(s) - Len(suffix) + 1, Len(s)) = suffix

-----------------------------------------------------------------------------
(* Module constants *)

DEFAULT_TTL == 3600

_CONTENT_NAME_MAP ==
    [A |-> "ip", AAAA |-> "ip", CAA |-> "caaValue", CNAME |-> "alias",
     MX |-> "mailserver", NS |-> "nameServer", SRV |-> "target",
     SSHFP |-> "text", TLSA |-> "hash", TXT |-> "text"]

_PRIORITY_TYPE_SET == {"MX", "SRV"}

\* self.domain: the zone "d.c"
Domain == <<"d", ".", "c">>

-----------------------------------------------------------------------------
(* Schema translation *)

__assemble_lexicon_record(identifier, rtype, name, content, ttlOpt) ==
    LET record == [type |-> Upper(rtype), name |-> name, content |-> content,
                   ttl |-> IF ttlOpt /= 0 THEN ttlOpt ELSE DEFAULT_TTL]
    IN  IF Truthy(identifier) THEN ("id" :> identifier) @@ record ELSE record

make_fqdn(name) == name \o <<".">> \o Domain \o <<".">>

extract_content(provider_record, rtype) ==
    IF Upper(rtype) \notin DOMAIN _CONTENT_NAME_MAP
    THEN Raise("UnsupportedRecordType")
    ELSE LET name == _CONTENT_NAME_MAP[Upper(rtype)]
         IN  IF name \in DOMAIN provider_record
             THEN Ok([content |-> provider_record[name],
                      rest |-> Without(provider_record, {name})])
             ELSE Raise("KeyError")

__normalize_for_lexicon(provider_record) ==
    LET rtype == Upper(provider_record["type"])
        popped == Without(provider_record, {"type", "hashId", "name", "ttl"})
        extracted == extract_content(popped, rtype)
    IN  IF {"type", "name", "ttl"} \subseteq DOMAIN provider_record
        THEN IF extracted.tag /= "ok"
             THEN Raise(extracted.tag)
             ELSE LET normalized ==
                          [id |-> IF "hashId" \in DOMAIN provider_record
                                  THEN provider_record["hashId"] ELSE None,
                           type |-> rtype,
                           name |-> make_fqdn(provider_record["name"]),
                           ttl |-> provider_record["ttl"],
                           content |-> extracted.val.content]
                      left == extracted.val.rest
                  IN  Ok(IF ~IsEmpty(left)
                         THEN ("options" :> (Lower(rtype) :> left)) @@ normalized
                         ELSE normalized)
        ELSE Raise("KeyError")

make_name_prefix(fqdn) ==
    LET prefix == RStripDot(fqdn)
    IN  IF EndsWith(prefix, Domain)
        THEN RStripDot(SubSeq(prefix, 1, Len(prefix) - Len(Domain)))
        ELSE prefix

\* A lookup that falls back to "text" for a type it does not know
query_content_name_default(rtype) ==
    Ok(IF Upper(rtype) \in DOMAIN _CONTENT_NAME_MAP
       THEN _CONTENT_NAME_MAP[Upper(rtype)]
       ELSE "text")

query_content_name(rtype) ==
    IF Upper(rtype) \in DOMAIN _CONTENT_NAME_MAP
    THEN Ok(_CONTENT_NAME_MAP[Upper(rtype)])
    ELSE Raise("UnsupportedRecordType")

\* Returns the pair (rtype, normalized)
__normalize_for_provider(lexicon_record) ==
    LET rtype == lexicon_record["type"]
        cname == query_content_name(rtype)
    IN  IF cname.tag /= "ok"
        THEN Raise(cname.tag)
        ELSE LET base == (cname.val :> lexicon_record["content"])
                         @@ [name |-> make_name_prefix(lexicon_record["name"]),
                             ttl |-> lexicon_record["ttl"]]
                 withId == IF "id" \in DOMAIN lexicon_record
                              /\ Truthy(lexicon_record["id"])
                           THEN ("hashId" :> lexicon_record["id"]) @@ base
                           ELSE base
             IN  IF "options" \in DOMAIN lexicon_record
                    /\ ~IsEmpty(lexicon_record["options"])
                 THEN IF Lower(rtype) \in DOMAIN lexicon_record["options"]
                      THEN Ok(<<rtype, DictUpdate(withId,
                                    lexicon_record["options"][Lower(rtype)])>>)
                      ELSE Raise("KeyError")
                 ELSE Ok(<<rtype, withId>>)

-----------------------------------------------------------------------------
(* The registrar, seen through the transport (_request and the _get, _post, *)
(* _put and _delete verbs of the provider base class).  A request that      *)
(* changes the zone either fails (raise_for_status raises HTTPError) or is  *)
(* served; once the provider is authenticated, the listing GET answers.     *)

IdPool == <<"h1", "h2", "h3", "h4", "h5">>

HashIds(z) == {z[i]["hashId"] : i \in 1..Len(z)}

FreshId(z) ==
    IdPool[CHOOSE i \in 1..Len(IdPool) :
               /\ IdPool[i] \notin HashIds(z)
               /\ \A j \in 1..(i - 1) : IdPool[j] \in HashIds(z)]

\* The path "/dns/{domain}/{last}/v1"
DnsUrl(last) == <<"dns", Domain, last, "v1">>

Request(method, url, data) == [method |-> method, url |-> url, data |-> data]

GetRecords == Request("GET", DnsUrl("records"), EmptyDict)

\* The record the registrar keeps for a request to /dns/{zone}/{type}/v1
Stored(rtype, record) == ("type" :> Upper(rtype)) @@ record

\* POST /dns/{zone}/{type}/v1 with the JSON body [rtype, record]
ServePost(z, rtype, data) ==
    Append(z, ("hashId" :> FreshId(z)) @@ Stored(rtype, data[2]))

\* PUT /dns/{zone}/{type}/v1 with the JSON body [rtype, record]
ServePut(z, rtype, data) ==
    [i \in 1..Len(z) |->
        IF z[i]["hashId"] = data[2]["hashId"]
        THEN Stored(rtype, data[2])
        ELSE z[i]]

KnowsPut(z, data) ==
    /\ "hashId" \in DOMAIN data[2]
    /\ data[2]["hashId"] \in HashIds(z)

\* DELETE /dns/{zone}/{hashId}/v1
ServeDelete(z, identifier) ==
    LET keep(r) == r["hashId"] /= identifier
    IN  SelectSeq(z, keep)

-----------------------------------------------------------------------------
(* Record listing *)

\* A listing that forgets its content filter
filtered_without_content(records, rtype, name, content) ==
    LET match_type(r) == ~Truthy(rtype) \/ r["type"] = rtype
        match_name(r) == name = << >> \/ r["name"] = name
    IN  SelectSeq(SelectSeq(records, match_type), match_name)

\* The three filters of _list_records; filter(None, ...) keeps every record
filtered(records, rtype, name, content) ==
    LET match_type(r) == ~Truthy(rtype) \/ r["type"] = rtype
        match_name(r) == name = << >> \/ r["name"] = name
        match_content(r) == ~Truthy(content) \/ r["content"] = content
    IN  SelectSeq(SelectSeq(SelectSeq(records, match_type), match_name),
                  match_content)

\* The body of _list_records once the GET has answered with the records z
_list_records(z, rtype, name, content) ==
    LET canon == [i \in 1..Len(z) |-> __normalize_for_lexicon(z[i])]
        bad == {i \in 1..Len(z) : canon[i].tag /= "ok"}
        first == CHOOSE i \in bad : \A j \in bad : i <= j
        records == [i \in 1..Len(z) |-> canon[i].val]
    IN  IF bad /= {}
        THEN Raise(canon[first].tag)
        ELSE Ok(filtered(records, rtype, name, content))

-----------------------------------------------------------------------------
(* Inputs *)

\* Record types a caller passes; SOA is outside _CONTENT_NAME_MAP
Types == {"A", "MX", "SOA"}

\* Names a caller passes: "w.d.c." and, without the final dot, "w.d.c"
Names == {<<"w", ".", "d", ".", "c", ".">>, <<"w", ".", "d", ".", "c">>}

NoName == << >>

Contents == {"c1", "c2"}

Identifiers == {"h1"}

\* The lexicon options ttl and priority; 0 is an unset option
TtlOptions == {0, 300}

PriorityOptions == {0, 10}

\* The values of an option for a call: a call that never reads the option
\* is the same call whatever its value, and is modelled with it unset
OptionRead(read, options) == IF read THEN options ELSE {0}

NotListed == [tag |-> "none"]

\* Zones the registrar may hold when the provider is constructed
InitRecords ==
    {[type |-> "A", name |-> <<"w">>, ttl |-> 300, ip |-> "c1"],
     [type |-> "A", name |-> <<"w">>, ttl |-> 300, ip |-> "c2"],
     [type |-> "MX", name |-> <<"w">>, ttl |-> 300, mailserver |-> "c1",
      priority |-> 5],
     [type |-> "SOA", name |-> <<>>, ttl |-> 300, soa |-> "c1"]}

WithIds(z) == [i \in 1..Len(z) |-> ("hashId" :> IdPool[i]) @@ z[i]]

InitZones ==
    {<< >>}
    \cup {WithIds(<<r>>) : r \in InitRecords}
    \cup UNION {{WithIds(<<r, s>>) : s \in InitRecords \ {r}} : r \in InitRecords}

-----------------------------------------------------------------------------
(* CRUD methods *)

Call(op, identifier, rtype, name, content, ttlOpt, prioOpt) ==
    [op |-> op, identifier |-> identifier, rtype |-> rtype, name |-> name,
     content |-> content, ttl |-> ttlOpt, priority |-> prioOpt]

\* How a call ends: the requests it issued, its outcome, the zone it leaves
Finish(issued, outcome, z) ==
    /\ pc' = "done"
    /\ UNCHANGED domain_id
    /\ reqs' = issued
    /\ result' = outcome
    /\ zone' = z

_create_record(rtype, name, content, ttlOpt, prioOpt, postOk) ==
    LET listing == _list_records(zone, rtype, name, content)
        record == __normalize_for_provider(
                      __assemble_lexicon_record(None, rtype, name, content, ttlOpt))
        post == Request("POST", DnsUrl(Lower(rtype)), record.val)
    IN  /\ call' = Call("create", None, rtype, name, content, ttlOpt, prioOpt)
        /\ zone0' = zone
        /\ UNCHANGED <<tIn, tOut>>
        /\ found' = listing
        /\ IF listing.tag /= "ok"
           THEN Finish(<<GetRecords>>, listing.tag, zone)
           ELSE IF listing.val /= << >>
           THEN Finish(<<GetRecords>>, "True", zone)
           ELSE IF record.tag /= "ok"
           THEN Finish(<<GetRecords>>, record.tag, zone)
           ELSE IF rtype \in _PRIORITY_TYPE_SET
           THEN \* record is a tuple: the item assignment raises
                Finish(<<GetRecords>>, "TypeError", zone)
           ELSE IF postOk /\ Len(zone) < MaxZone
           THEN Finish(<<GetRecords, post>>, "True",
                       ServePost(zone, Lower(rtype), record.val))
           ELSE Finish(<<GetRecords, post>>, "HTTPError", zone)

list_records(rtype, name, content) ==
    LET listing == _list_records(zone, rtype, name, content)
    IN  /\ call' = Call("list", None, rtype, name, content, 0, 0)
        /\ zone0' = zone
        /\ UNCHANGED <<tIn, tOut>>
        /\ found' = listing
        /\ Finish(<<GetRecords>>, listing.tag, zone)

\* record = listing[0]: the first match is taken when there are several
unpacks_first(listing) == Len(listing) >= 1

\* (record,) = listing: the unpacking raises ValueError unless the listing
\* holds exactly one record
unpacks(listing) == Len(listing) = 1

\* _update_record decides between resolving through the listing and
\* assembling a fresh record
resolves(identifier, rtype, name, content) ==
    ~(Truthy(identifier) /\ Truthy(rtype) /\ name /= NoName /\ Truthy(content))

\* The record type _update_record goes on with
update_rtype(lexicon_record, rtype) ==
    IF Truthy(rtype) THEN rtype ELSE lexicon_record["type"]

\* An update that keeps only the id of the record it resolved and assembles
\* the rest afresh, as it does for a full update by identifier
overlay_fresh(lexicon_record, identifier, rtype, name, content, prioOpt) ==
    [id |-> IF Truthy(identifier) THEN identifier ELSE lexicon_record["id"],
     type |-> IF Truthy(rtype) THEN rtype ELSE lexicon_record["type"],
     name |-> IF name /= << >> THEN name ELSE lexicon_record["name"],
     content |-> IF Truthy(content) THEN content ELSE lexicon_record["content"],
     ttl |-> DEFAULT_TTL]

\* _update_record lays the supplied values over lexicon_record
overlay(lexicon_record, identifier, rtype, name, content, prioOpt) ==
    LET rtype2 == update_rtype(lexicon_record, rtype)
        r1 == IF Truthy(rtype)
              THEN DictUpdate(lexicon_record, "type" :> rtype) ELSE lexicon_record
        r2 == IF Truthy(identifier) THEN DictUpdate(r1, "id" :> identifier) ELSE r1
        r3 == IF name /= NoName THEN DictUpdate(r2, "name" :> name) ELSE r2
        r4 == IF Truthy(content) THEN DictUpdate(r3, "content" :> content) ELSE r3
        priority == IF rtype2 \in _PRIORITY_TYPE_SET THEN prioOpt ELSE 0
        options == IF "options" \in DOMAIN r4 THEN r4["options"] ELSE EmptyDict
        record_options == IF Lower(rtype2) \in DOMAIN options
                          THEN options[Lower(rtype2)] ELSE EmptyDict
    IN  IF priority /= 0
        THEN DictUpdate(r4, "options" :>
                 DictUpdate(options, Lower(rtype2) :>
                     DictUpdate(record_options, "priority" :> priority)))
        ELSE r4

_update_record(identifier, rtype, name, content, ttlOpt, prioOpt, putOk) ==
    LET resolve == resolves(identifier, rtype, name, content)
        listing == _list_records(zone, rtype, name, None)
        issued == IF resolve THEN <<GetRecords>> ELSE << >>
        lexicon_record ==
            IF resolve
            THEN listing.val[1]
            ELSE __assemble_lexicon_record(identifier, rtype, name, content, ttlOpt)
        rtype2 == update_rtype(lexicon_record, rtype)
        record == __normalize_for_provider(
                      overlay(lexicon_record, identifier, rtype, name, content,
                              prioOpt))
        put == Request("PUT", DnsUrl(Lower(rtype2)), record.val)
    IN  /\ call' = Call("update", identifier, rtype, name, content, ttlOpt, prioOpt)
        /\ zone0' = zone
        /\ UNCHANGED <<tIn, tOut>>
        /\ found' = IF resolve THEN listing ELSE NotListed
        /\ IF resolve /\ listing.tag /= "ok"
           THEN Finish(issued, listing.tag, zone)
           ELSE IF resolve /\ ~unpacks(listing.val)
           THEN \* Cannot find exact match, won't update
                Finish(issued, "Exception", zone)
           ELSE IF record.tag /= "ok"
           THEN Finish(issued, record.tag, zone)
           ELSE IF putOk /\ KnowsPut(zone, record.val)
           THEN Finish(Append(issued, put), "True",
                       ServePut(zone, Lower(rtype2), record.val))
           ELSE Finish(Append(issued, put), "HTTPError", zone)

_delete_record(identifier, rtype, name, content, deleteOk) ==
    LET resolve == ~Truthy(identifier)
        listing == _list_records(zone, rtype, name, None)
        issued == IF resolve THEN <<GetRecords>> ELSE << >>
        identifier2 == IF resolve THEN listing.val[1]["id"] ELSE identifier
        delete == Request("DELETE", DnsUrl(identifier2), EmptyDict)
    IN  /\ call' = Call("delete", identifier, rtype, name, content, 0, 0)
        /\ zone0' = zone
        /\ UNCHANGED <<tIn, tOut>>
        /\ found' = IF resolve THEN listing ELSE NotListed
        /\ IF resolve /\ listing.tag /= "ok"
           THEN Finish(issued, listing.tag, zone)
           ELSE IF resolve /\ ~unpacks(listing.val)
           THEN \* Cannot find exact match, won't delete
                Finish(issued, "False", zone)
           ELSE IF deleteOk
           THEN Finish(Append(issued, delete), "True",
                       ServeDelete(zone, identifier2))
           ELSE Finish(Append(issued, delete), "HTTPError", zone)

-----------------------------------------------------------------------------
(* The provider under any sequence of calls *)

NoCall == Call("none", None, None, NoName, None, 0, 0)

Init ==
    /\ pc = "new"
    /\ domain_id = NoName
    /\ zone \in InitZones
    /\ zone0 = zone
    /\ call = NoCall
    /\ found = NotListed
    /\ reqs = << >>
    /\ result = "none"
    /\ tIn = EmptyDict
    /\ tOut = NotListed

\* The next invocation of the tool constructs a fresh provider
__init__ ==
    /\ pc \in {"done", "unowned"}
    /\ pc' = "new"
    /\ domain_id' = NoName
    /\ zone0' = zone
    /\ call' = NoCall
    /\ found' = NotListed
    /\ reqs' = << >>
    /\ result' = "none"
    /\ UNCHANGED <<zone, tIn, tOut>>

GetDomains == Request("GET", <<"domains", "v1">>, EmptyDict)

_authenticate(getOk, owned) ==
    /\ reqs' = <<GetDomains>>
    /\ call' = Call("authenticate", None, None, NoName, None, 0, 0)
    /\ IF ~getOk
       THEN pc' = "unowned" /\ result' = "HTTPError" /\ UNCHANGED domain_id
       ELSE IF owned
       THEN pc' = "ready" /\ result' = "None" /\ domain_id' = Domain
       ELSE pc' = "unowned" /\ result' = "UnownedDomain" /\ UNCHANGED domain_id
    /\ UNCHANGED <<zone, zone0, found, tIn, tOut>>

Authenticate ==
    /\ pc = "new"
    /\ \E getOk \in BOOLEAN, owned \in BOOLEAN : _authenticate(getOk, owned)

Create ==
    /\ pc = "ready"
    /\ \E rtype \in Types, name \in Names, content \in Contents,
          ttlOpt \in TtlOptions, postOk \in BOOLEAN :
        \E prioOpt \in OptionRead(rtype \in _PRIORITY_TYPE_SET, PriorityOptions) :
        _create_record(rtype, name, content, ttlOpt, prioOpt, postOk)

List ==
    /\ pc = "ready"
    /\ \E rtype \in Types \cup {None}, name \in Names \cup {NoName},
       content \in Contents \cup {None} :
        list_records(rtype, name, content)

Update ==
    /\ pc = "ready"
    /\ \E identifier \in Identifiers \cup {None}, rtype \in Types \cup {None},
          name \in Names \cup {NoName}, content \in Contents \cup {None},
          putOk \in BOOLEAN :
        \E ttlOpt \in OptionRead(~resolves(identifier, rtype, name, content),
                                 TtlOptions),
           prioOpt \in OptionRead(rtype \in _PRIORITY_TYPE_SET \/ ~Truthy(rtype),
                                  PriorityOptions) :
        _update_record(identifier, rtype, name, content, ttlOpt, prioOpt,
                       putOk)

Delete ==
    /\ pc = "ready"
    /\ \E identifier \in Identifiers \cup {None}, rtype \in Types \cup {None},
       name \in Names \cup {NoName}, content \in Contents \cup {None},
       deleteOk \in BOOLEAN :
        _delete_record(identifier, rtype, name, content, deleteOk)

Next == __init__ \/ Authenticate \/ Create \/ List \/ Update \/ Delete

Spec == Init /\ [][Next]_vars

-----------------------------------------------------------------------------
(* The schema translator on its own: a lexicon record is translated to the  *)
(* provider's form, kept by the registrar under its type, and translated    *)
(* back.                                                                    *)

\* "w.d.c." and the zone apex "d.c."
TranslatedNames == {<<"w", ".", "d", ".", "c", ".">>, <<"d", ".", "c", ".">>}

TranslatedTtls == {300, 3600}

\* Every supported type, and one that is not
TranslatedTypes == DOMAIN _CONTENT_NAME_MAP \cup {"SOA"}

\* Lexicon records: with or without an id, with or without options
LexiconRecords ==
    UNION {
        LET base == [type |-> rtype, name |-> name, content |-> content,
                     ttl |-> ttl]
            ided == {base, ("id" :> "h1") @@ base}
        IN  ided \cup {("options" :> (Lower(rtype) :> [priority |-> 10])) @@ r :
                       r \in ided}
        : rtype \in TranslatedTypes, name \in TranslatedNames, content \in Contents,
          ttl \in TranslatedTtls}

there_and_back(lexicon_record) ==
    LET sent == __normalize_for_provider(lexicon_record)
    IN  IF sent.tag /= "ok"
        THEN Raise(sent.tag)
        ELSE __normalize_for_lexicon(Stored(sent.val[1], sent.val[2]))

InitTranslator ==
    /\ pc = "translate"
    /\ domain_id = Domain
    /\ zone = << >>
    /\ zone0 = << >>
    /\ call = NoCall
    /\ found = NotListed
    /\ reqs = << >>
    /\ result = "none"
    /\ tIn \in LexiconRecords
    /\ tOut = NotListed

Translate ==
    /\ pc = "translate"
    /\ pc' = "translated"
    /\ tOut' = there_and_back(tIn)
    /\ UNCHANGED <<domain_id, zone, zone0, call, found, reqs, result, tIn>>

NextTranslator == Translate

SpecTranslator == InitTranslator /\ [][NextTranslator]_vars

-----------------------------------------------------------------------------
(* Vocabulary of the claims *)

Supported(rtype) == Upper(rtype) \in DOMAIN _CONTENT_NAME_MAP

HoldsUnsupported(z) == \E k \in 1..Len(z) : ~Supported(z[k]["type"])

Done(op) == pc = "done" /\ call.op = op

Issued(method) == \E i \in 1..Len(reqs) : reqs[i].method = method

OnlyGets == \A i \in 1..Len(reqs) : reqs[i].method = "GET"

Listed == found.tag = "ok"

\* The registrar's record with this identifier when the call began
Held(identifier) ==
    zone0[CHOOSE k \in 1..Len(zone0) : zone0[k]["hashId"] = identifier]

\* A lexicon record with an absent id read as id None
WithId(r) == IF "id" \in DOMAIN r THEN r ELSE ("id" :> None) @@ r

-----------------------------------------------------------------------------
(* C1 *)

WellFormed(r) == r["type"] \in DOMAIN _CONTENT_NAME_MAP

\* C1: translating a well-formed lexicon record of a supported type to the
\* provider's form and back reproduces the record (an absent id counted as
\* the id None that the way back puts in its place).
C1_RoundTripLaw ==
    (pc = "translated" /\ WellFormed(tIn))
        => (tOut.tag = "ok" /\ tOut.val = WithId(tIn))

-----------------------------------------------------------------------------
(* C2 *)

\* The registrar holds the record that create(rtype, name, content) sends
Holds(z, rtype, name, content) ==
    \E k \in 1..Len(z) :
        /\ z[k]["type"] = Upper(rtype)
        /\ z[k]["name"] = make_name_prefix(name)
        /\ _CONTENT_NAME_MAP[Upper(rtype)] \in DOMAIN z[k]
        /\ z[k][_CONTENT_NAME_MAP[Upper(rtype)]] = content

\* C2: a create for a (type, name, content) whose record the registrar
\* already holds finds it in the listing, issues no POST and returns True.
C2_IdempotentCreate ==
    (/\ Done("create")
     /\ Listed
     /\ Supported(call.rtype)
     /\ Holds(zone0, call.rtype, call.name, call.content))
        => (result = "True" /\ ~Issued("POST"))

-----------------------------------------------------------------------------
(* C3 *)

\* C3: a delete without an identifier whose listing does not hold exactly
\* one match returns False, issues no DELETE and leaves the zone as it was.
C3_DeleteWithoutUniqueMatch ==
    (/\ Done("delete")
     /\ ~Truthy(call.identifier)
     /\ Listed
     /\ Len(found.val) /= 1)
        => (result = "False" /\ OnlyGets /\ zone = zone0)

\* A delete by type and name that two records answer to
C3_Witness ==
    /\ Done("delete")
    /\ ~Truthy(call.identifier)
    /\ Truthy(call.rtype)
    /\ call.name /= NoName
    /\ Listed
    /\ Len(found.val) = 2
    /\ result = "False"

-----------------------------------------------------------------------------
(* C4 *)

\* The positions of the records of z that list as type A under this name
ARecords(z, name) ==
    {k \in 1..Len(z) :
        LET r == __normalize_for_lexicon(z[k])
        IN  r.tag = "ok" /\ r.val["type"] = "A" /\ r.val["name"] = name}

\* The zone held two A records of this name with different content, and
\* nothing the translator refuses
TwoARecords(z, name) ==
    /\ \A k \in 1..Len(z) : __normalize_for_lexicon(z[k]).tag = "ok"
    /\ \E i, j \in ARecords(z, name) :
           /\ ARecords(z, name) = {i, j}
           /\ z[i]["ip"] /= z[j]["ip"]

\* C4: with two A records of one name and different content in the zone,
\* an update or delete without identifier by (A, name) fails and changes
\* nothing, and one by (A, name, content of one of the two) goes through
\* and acts on exactly that record.
C4_UniqueResolutionWithContent ==
    (/\ pc = "done"
     /\ call.op \in {"update", "delete"}
     /\ ~Truthy(call.identifier)
     /\ call.rtype = "A"
     /\ call.name /= NoName
     /\ TwoARecords(zone0, call.name))
        => /\ ~Truthy(call.content)
                => (result \in {"False", "Exception"} /\ OnlyGets /\ zone = zone0)
           /\ Truthy(call.content)
                => \E k \in ARecords(zone0, call.name) :
                       /\ zone0[k]["ip"] = call.content
                       /\ Len(reqs) = 2
                       /\ \/ /\ reqs[2].method = "DELETE"
                             /\ reqs[2].url[3] = zone0[k]["hashId"]
                          \/ /\ reqs[2].method = "PUT"
                             /\ reqs[2].data[2]["hashId"] = zone0[k]["hashId"]

-----------------------------------------------------------------------------
(* C5 *)

\* An update without identifier that supplies type, name and content and
\* nothing else, and whose listing by (type, name) holds exactly one record
C5_Case ==
    /\ Done("update")
    /\ ~Truthy(call.identifier)
    /\ Truthy(call.rtype)
    /\ call.name /= NoName
    /\ Truthy(call.content)
    /\ call.priority = 0
    /\ Listed
    /\ Len(found.val) = 1

\* C5: such an update issues one PUT, for the existing record's type, whose
\* record carries the existing hashId and ttl and equals the existing
\* record in every field but the content, which is the supplied one.
C5_UpdatePreservesRecord ==
    C5_Case =>
        LET existing == Held(found.val[1]["id"])
            cname == _CONTENT_NAME_MAP[existing["type"]]
        IN  /\ Len(reqs) = 2
            /\ reqs[1].method = "GET"
            /\ reqs[2].method = "PUT"
            /\ reqs[2].url = DnsUrl(Lower(existing["type"]))
            /\ reqs[2].data[2]["hashId"] = existing["hashId"]
            /\ reqs[2].data[2]["ttl"] = existing["ttl"]
            /\ reqs[2].data[2][cname] = call.content
            /\ Without(reqs[2].data[2], {cname})
                   = Without(existing, {"type", cname})

\* The content of an MX record with a priority is replaced
C5_Witness ==
    /\ C5_Case
    /\ call.rtype = "MX"
    /\ call.content /= found.val[1]["content"]
    /\ "priority" \in DOMAIN reqs[2].data[2]
    /\ result = "True"
    /\ zone /= zone0

-----------------------------------------------------------------------------
(* C6 *)

AllSupplied ==
    /\ Truthy(call.identifier)
    /\ Truthy(call.rtype)
    /\ call.name /= NoName
    /\ Truthy(call.content)

\* C6: an update with an identifier never lists the zone and never fails
\* for want of exactly one match, whichever of type, name and content come
\* with the identifier.
C6_IdentifierNeverResolves ==
    (Done("update") /\ Truthy(call.identifier))
        => (found = NotListed /\ ~Issued("GET") /\ result /= "Exception")

\* What _update_record does with an identifier (line 359 asks for all four
\* arguments): an update with an identifier and all of type, name and
\* content never lists the zone and never fails for want of exactly one
\* match: for a supported type it submits one PUT of a fresh record made of
\* the supplied values; an update with an identifier that omits any of
\* type, name and content lists the zone by (type, name) first, and fails
\* unless exactly one record matches.
C6_FullUpdateNeverResolves ==
    /\ (Done("update") /\ AllSupplied)
           => /\ found = NotListed
              /\ ~Issued("GET")
              /\ result /= "Exception"
              /\ Supported(call.rtype)
                     => /\ Len(reqs) = 1
                        /\ reqs[1].method = "PUT"
                        /\ reqs[1].data[2]["hashId"] = call.identifier
                        /\ reqs[1].data[2]["name"] = make_name_prefix(call.name)
                        /\ reqs[1].data[2][_CONTENT_NAME_MAP[Upper(call.rtype)]]
                               = call.content
                        /\ reqs[1].data[2]["ttl"]
                               = (IF call.ttl /= 0 THEN call.ttl ELSE DEFAULT_TTL)
    /\ (Done("update") /\ Truthy(call.identifier) /\ ~AllSupplied)
           => /\ reqs /= << >>
              /\ reqs[1].method = "GET"
              /\ found /= NotListed
              /\ (Listed /\ Len(found.val) /= 1)
                     => (result = "Exception" /\ OnlyGets /\ zone = zone0)

\* A full update by identifier goes through in a zone where two records
\* have the type and name it names
C6_Witness ==
    /\ Done("update")
    /\ AllSupplied
    /\ ~HoldsUnsupported(zone0)
    /\ Len(_list_records(zone0, call.rtype, call.name, None).val) = 2
    /\ result = "True"
    /\ Len(reqs) = 1

-----------------------------------------------------------------------------
(* C7 *)

\* The lexicon forms of the records of z, in the registrar's order
Canonical(z) == [i \in 1..Len(z) |-> __normalize_for_lexicon(z[i]).val]

\* r matches every filter the call supplies
MatchesAll(r) ==
    /\ Truthy(call.rtype) => r["type"] = call.rtype
    /\ call.name /= NoName => r["name"] = call.name
    /\ Truthy(call.content) => r["content"] = call.content

-----------------------------------------------------------------------------
(* C8 *)

\* C8: translating a record of a type outside the supported set fails with
\* UnsupportedRecordType in both directions, and no request follows: a
\* create or a full update of such a type sends nothing to change the zone,
\* and a listing of a zone that holds such a record fails after its GET.
C8_UnsupportedTypeFails ==
    /\ (Done("create") /\ ~Supported(call.rtype) /\ Listed /\ found.val = << >>)
           => (result = "UnsupportedRecordType" /\ Len(reqs) = 1 /\ OnlyGets)
    /\ (Done("update") /\ AllSupplied /\ ~Supported(call.rtype))
           => (result = "UnsupportedRecordType" /\ reqs = << >>)
    /\ (pc = "done" /\ found /= NotListed /\ HoldsUnsupported(zone0))
           => /\ found.tag = "UnsupportedRecordType"
              /\ result = "UnsupportedRecordType"
              /\ Len(reqs) = 1
              /\ OnlyGets
    /\ (pc = "done" /\ result = "UnsupportedRecordType")
           => (OnlyGets /\ zone = zone0)

\* A create of an SOA record in a zone the translator reads
C8_Witness ==
    /\ Done("create")
    /\ call.rtype = "SOA"
    /\ Listed
    /\ zone0 /= << >>
    /\ result = "UnsupportedRecordType"

-----------------------------------------------------------------------------
(* C9 *)

\* The record of the request a create or update sent to change the zone
Payload == reqs[Len(reqs)].data[2]

Sent == reqs /= << >> /\ reqs[Len(reqs)].method \in {"POST", "PUT"}

\* C9: a create of an MX or SRV record with a priority given sends a record
\* with a top-level priority, and the record a create or update sends has a
\* priority exactly when the type is MX or SRV and a priority is present
\* (given to the call, or held in the options of the record it resolved).
C9_PriorityEmission ==
    /\ (/\ Done("create")
        /\ Listed
        /\ found.val = << >>
        /\ call.rtype \in _PRIORITY_TYPE_SET
        /\ call.priority /= 0)
           => (Sent /\ "priority" \in DOMAIN Payload)
    /\ (Done("create") /\ Sent)
           => ("priority" \in DOMAIN Payload
                   <=> (call.rtype \in _PRIORITY_TYPE_SET /\ call.priority /= 0))
    /\ (Done("update") /\ Sent)
           => ("priority" \in DOMAIN Payload
                   <=> /\ reqs[Len(reqs)].data[1] \in _PRIORITY_TYPE_SET
                       /\ \/ call.priority /= 0
                          \/ /\ Listed
                             /\ "options" \in DOMAIN found.val[1]
                             /\ "priority" \in DOMAIN
                                    found.val[1]["options"][
                                        Lower(found.val[1]["type"])])

-----------------------------------------------------------------------------
(* C10 *)

\* C10: a delete without identifier that names type, name and content sends
\* a DELETE only for a record whose type, name and content are the named
\* ones.
C10_DeleteOnlyMatchingContent ==
    (/\ Done("delete")
     /\ ~Truthy(call.identifier)
     /\ Truthy(call.rtype)
     /\ call.name /= NoName
     /\ Truthy(call.content))
        => \A i \in 1..Len(reqs) :
               reqs[i].method = "DELETE"
                   => LET r == __normalize_for_lexicon(Held(reqs[i].url[3])).val
                      IN  /\ r["type"] = call.rtype
                          /\ r["name"] = call.name
                          /\ r["content"] = call.content

====
